---- MODULE Spec2Model ----
(***************************************************************************)
(* The deterministic conversational pipeline of backend/agent.py           *)
(* (parse_intent -> execute_action -> generate_response) together with the *)
(* task store of backend/task_tools.py it drives.                          *)
(*                                                                         *)
(* Texts are TLA+ strings; a character is a string of length one.  Python  *)
(* None is the empty tuple and a present value v is the tuple <<v>>.       *)
(* The regular expressions of TextProcessor are written out as searches    *)
(* over the characters of the text: leftmost match, greedy \s* and \d+,    *)
(* lazy (.+?) groups.  The texts of the model are single-line, so '.'      *)
(* matches every character and '$' matches at the end of the text only.    *)
(* The LLM pathway (agent.py:511-545) is disabled by default               *)
(* (ENABLE_LLM_TOOL_AGENT unset, agent.py:480-483), llm_tool_agent is None *)
(* and every call takes the deterministic pipeline modelled here.          *)
(* The state dictionary of the graph is handed from node to node along     *)
(* the edges of create_deterministic_agent as the node functions return    *)
(* it: intent and action_result reach the next node.                       *)
(* The non-ASCII characters of the fixed reply texts (pictographs,         *)
(* bullets) are omitted, and so is the timestamp of a turn.                *)
(***************************************************************************)
EXTENDS Integers, Sequences, FiniteSets, TLC

----------------------------------------------------------------------------
(* Optional values *)

None == <<>>
Some(v) == <<v>>

\* Python truthiness of an Optional[str]: None and "" are falsy
TruthyStr(o) == o # None /\ o[1] # ""
\* Python truthiness of an Optional[int]: None and 0 are falsy
TruthyInt(o) == o # None /\ o[1] # 0

SetMin(S) == CHOOSE x \in S : \A y \in S : x <= y
SetMax(S) == CHOOSE x \in S : \A y \in S : x >= y

----------------------------------------------------------------------------
(* Characters and strings *)

UpperAlpha == "ABCDEFGHIJKLMNOPQRSTUVWXYZ"
LowerAlpha == "abcdefghijklmnopqrstuvwxyz"
DigitChars == "0123456789"

\* the i-th character of s, "" outside the text
Ch(s, i) == IF 1 <= i /\ i <= Len(s) THEN SubSeq(s, i, i) ELSE ""

CharsOf(set) == {Ch(set, i) : i \in 1..Len(set)}
IndexIn(c, set) == CHOOSE i \in 1..Len(set) : Ch(set, i) = c

SpaceSet == {" ", "\t", "\n"}
DigitSet == CharsOf(DigitChars)
UpperSet == CharsOf(UpperAlpha)
\* \w of the re module
WordSet == DigitSet \cup UpperSet \cup CharsOf(LowerAlpha) \cup {"_"}
LowerOf == [c \in UpperSet |-> Ch(LowerAlpha, IndexIn(c, UpperAlpha))]

IsSpace(c) == c \in SpaceSet
IsDigit(c) == c \in DigitSet
IsWord(c) == c \in WordSet

LowerCh(c) == IF c \in UpperSet THEN LowerOf[c] ELSE c

\* str.lower()
RECURSIVE LowerFrom(_, _)
LowerFrom(s, i) == IF i > Len(s) THEN "" ELSE LowerCh(Ch(s, i)) \o LowerFrom(s, i + 1)

lower(s) == LowerFrom(s, 1)

\* str.strip()
RECURSIVE strip(_)
strip(s) ==
    IF s = "" THEN ""
    ELSE IF IsSpace(Ch(s, 1)) THEN strip(SubSeq(s, 2, Len(s)))
    ELSE IF IsSpace(Ch(s, Len(s))) THEN strip(SubSeq(s, 1, Len(s) - 1))
    ELSE s

\* kw occurs in s at position i
At(s, i, kw) == i >= 1 /\ i + Len(kw) - 1 <= Len(s) /\ SubSeq(s, i, i + Len(kw) - 1) = kw

\* Python's  kw in s
Contains(s, kw) == \E i \in 1..Len(s) : At(s, i, kw)

\* the first position at or after p that holds no whitespace (greedy \s*)
RECURSIVE SkipWs(_, _)
SkipWs(s, p) == IF IsSpace(Ch(s, p)) THEN SkipWs(s, p + 1) ELSE p

\* the first position at or after p that is whitespace or past the end
RECURSIVE SkipNonWs(_, _)
SkipNonWs(s, p) == IF p > Len(s) \/ IsSpace(Ch(s, p)) THEN p ELSE SkipNonWs(s, p + 1)

\* the first position at or after p that holds no digit (greedy \d+)
RECURSIVE SkipDigits(_, _)
SkipDigits(s, p) == IF IsDigit(Ch(s, p)) THEN SkipDigits(s, p + 1) ELSE p

\* str.split()
RECURSIVE split(_)
split(s) ==
    LET p == SkipWs(s, 1) IN
    IF p > Len(s) THEN <<>>
    ELSE LET e == SkipNonWs(s, p) IN <<SubSeq(s, p, e - 1)>> \o split(SubSeq(s, e, Len(s)))

\* int() of a string of decimal digits
RECURSIVE ParseInt(_)
ParseInt(s) == IF s = "" THEN 0 ELSE 10 * ParseInt(SubSeq(s, 1, Len(s) - 1)) + (IndexIn(Ch(s, Len(s)), DigitChars) - 1)

\* str() of a natural number
RECURSIVE IntToStr(_)
IntToStr(n) == IF n < 10 THEN Ch(DigitChars, n + 1) ELSE IntToStr(n \div 10) \o Ch(DigitChars, (n % 10) + 1)

\* f"{n:02d}"
TwoDigits(n) == IF n < 10 THEN "0" \o IntToStr(n) ELSE IntToStr(n)

\* re.search(rf'\b{kw}\b', s, re.IGNORECASE), t the lower-cased s, for a keyword that starts
\* and ends with a word character
WordSearch(t, kw) ==
    \E i \in 1..Len(t) : At(t, i, kw) /\ ~IsWord(Ch(t, i - 1)) /\ ~IsWord(Ch(t, i + Len(kw)))

\* the tail (?:\s+(?:w1|w2|...)|$) matches right after position j of the lower-cased text t
StopAt(t, j, stops) ==
    \/ j = Len(t)
    \/ IsSpace(Ch(t, j + 1)) /\ \E w \in stops : At(t, SkipWs(t, j + 1), w)

\* the end of the lazy group (.+?) that starts at g and is followed by the tail
LazyEnd(t, g, stops) == SetMin({j \in g..Len(t) : StopAt(t, j, stops)})

\* the text captured by (.+?) starting at g of s (t the lower-cased s), stripped
Capture(s, t, g, stops) == strip(SubSeq(s, g, LazyEnd(t, g, stops)))

\* the start of a group (.+?) preceded by greedy whitespace (\s* : minWs = 0, \s+ : minWs = 1)
\* that begins at p; when the whitespace runs to the end of the text the engine backs off
\* by one character and the group takes it; 0 when there is no match
GroupStart(s, p, minWs) ==
    LET q == SkipWs(s, p) IN
    IF q <= Len(s) THEN (IF q - p >= minWs THEN q ELSE 0)
    ELSE IF q - p >= minWs + 1 THEN Len(s) ELSE 0

----------------------------------------------------------------------------
(* TextProcessor: extraction of fields from the user's text *)

TitleStopsBy == {"by", "due", "tomorrow", "today", "next week", "priority", "description"}
TitleStopsNoBy == {"tomorrow", "today", "next week", "due", "priority", "description"}
TitleStopsShort == {"description", "due", "priority"}

\* a pattern  <prefix>\s*(.+?)<tail>  searched in s (t the lower-cased s): the stripped
\* group of the leftmost match, or None
PrefixWsCapture(s, t, prefix, stops) ==
    LET P == {i \in 1..Len(s) : At(t, i, prefix) /\ GroupStart(s, i + Len(prefix), 0) # 0}
    IN  IF P = {} THEN None
        ELSE Some(Capture(s, t, GroupStart(s, SetMin(P) + Len(prefix), 0), stops))

\* a pattern  <prefix>(.+?)<tail>, the prefix ending in a literal blank
PrefixCapture(s, t, prefix, stops) ==
    LET P == {i \in 1..Len(s) : At(t, i, prefix) /\ i + Len(prefix) <= Len(s)}
    IN  IF P = {} THEN None
        ELSE Some(Capture(s, t, SetMin(P) + Len(prefix), stops))

\* r'finish (.+?)\s+by\s+(.+?)(?:\s|$)': after the group end j come whitespace, "by",
\* whitespace and at least one more character
ByFollows(t, j) ==
    /\ IsSpace(Ch(t, j + 1))
    /\ LET k == SkipWs(t, j + 1) IN At(t, k, "by") /\ IsSpace(Ch(t, k + 2)) /\ k + 3 <= Len(t)

TitleFinishBy(s, t) ==
    LET E(i) == {j \in (i + 7)..Len(s) : ByFollows(t, j)}
        P == {i \in 1..Len(s) : At(t, i, "finish ") /\ E(i) # {}}
    IN  IF P = {} THEN None
        ELSE LET i == SetMin(P) IN Some(strip(SubSeq(s, i + 7, SetMin(E(i)))))

\* r'(?:i\s+)?(?:have|need|must|should|want)\s+to\s+(.+?)(?:\s+(?:by|due|...)|$)'
ModalVerbs == {"have", "need", "must", "should", "want"}

ModalGroupStart(s, t, i) ==
    IF \E v \in ModalVerbs : At(t, i, v)
    THEN LET v == CHOOSE w \in ModalVerbs : At(t, i, w)
             p == i + Len(v)
             q == SkipWs(t, p)
         IN  IF q > p /\ At(t, q, "to") THEN GroupStart(s, q + 2, 1) ELSE 0
    ELSE 0

TitleModal(s, t) ==
    LET P == {i \in 1..Len(s) : ModalGroupStart(s, t, i) # 0}
    IN  IF P = {} THEN None
        ELSE Some(Capture(s, t, ModalGroupStart(s, t, SetMin(P)), TitleStopsBy))

\* r'create a task (?:called|named|to)?\s*(.+?)(?:\s+(?:description|due|priority)|$)'
CreateWords == {"called", "named", "to"}

CreateGroupStart(s, t, i) ==
    IF ~At(t, i, "create a task ") THEN 0
    ELSE LET p == i + 14 IN
         IF \E w \in CreateWords : At(t, p, w)
         THEN LET w == CHOOSE x \in CreateWords : At(t, p, x)
                  g == GroupStart(s, p + Len(w), 0)
              IN  IF g # 0 THEN g ELSE GroupStart(s, p, 0)
         ELSE GroupStart(s, p, 0)

TitleCreate(s, t) ==
    LET P == {i \in 1..Len(s) : CreateGroupStart(s, t, i) # 0}
    IN  IF P = {} THEN None
        ELSE Some(Capture(s, t, CreateGroupStart(s, t, SetMin(P)), TitleStopsShort))

\* " ".join(words[:4])
JoinFour(w) == w[1] \o " " \o w[2] \o " " \o w[3] \o " " \o w[4]

\* the patterns of extract_title, tried in the order of the list
extract_title(user_input) ==
    LET t == lower(user_input)
        p1 == PrefixWsCapture(user_input, t, "add a task:", TitleStopsBy)
        p2 == TitleFinishBy(user_input, t)
        p3 == PrefixCapture(user_input, t, "remind me to ", TitleStopsNoBy)
        p4 == TitleModal(user_input, t)
        p5 == PrefixWsCapture(user_input, t, "task:", TitleStopsShort)
        p6 == TitleCreate(user_input, t)
        p7 == PrefixCapture(user_input, t, "buy ", TitleStopsNoBy)
        words == split(user_input)
    IN  IF p1 # None THEN p1[1]
        ELSE IF p2 # None THEN p2[1]
        ELSE IF p3 # None THEN p3[1]
        ELSE IF p4 # None THEN p4[1]
        ELSE IF p5 # None THEN p5[1]
        ELSE IF p6 # None THEN p6[1]
        ELSE IF p7 # None THEN p7[1]
        ELSE IF Len(words) > 3 THEN JoinFour(words)
        ELSE user_input

extract_description(user_input) ==
    PrefixWsCapture(user_input, lower(user_input), "description:", {"due", "priority"})

----------------------------------------------------------------------------
(* Calendar: datetime.now(), timedelta, strftime('%Y-%m-%d'), fromisoformat.      *)
(* The current date is a day of the year 2026, counted from 1 (January 1st).     *)

YearNow == "2026"
MonthDays == <<31, 28, 31, 30, 31, 30, 31, 31, 30, 31, 30, 31>>

RECURSIVE DaysBefore(_)
DaysBefore(m) == IF m = 1 THEN 0 ELSE DaysBefore(m - 1) + MonthDays[m - 1]

MonthOf(d) == SetMax({m \in 1..12 : DaysBefore(m) < d})

\* datetime.weekday(): Monday is 0; January 1st 2026 is a Thursday
weekday(d) == (d + 2) % 7

\* strftime('%Y-%m-%d')
strftime(d) == YearNow \o "-" \o TwoDigits(MonthOf(d)) \o "-" \o TwoDigits(d - DaysBefore(MonthOf(d)))

AllDigits(s) == \A i \in 1..Len(s) : IsDigit(Ch(s, i))

IsLeap(y) == (y % 4 = 0 /\ y % 100 # 0) \/ y % 400 = 0
DaysInMonth(y, m) == IF m = 2 /\ IsLeap(y) THEN 29 ELSE MonthDays[m]

\* datetime.fromisoformat accepts the text (a YYYY-MM-DD calendar date); it raises
\* ValueError on every other text the extractor can produce (M/D/YYYY, bad month or day)
IsIsoDate(s) ==
    /\ Len(s) = 10
    /\ AllDigits(SubSeq(s, 1, 4)) /\ Ch(s, 5) = "-" /\ AllDigits(SubSeq(s, 6, 7))
    /\ Ch(s, 8) = "-" /\ AllDigits(SubSeq(s, 9, 10))
    /\ LET y == ParseInt(SubSeq(s, 1, 4))
           m == ParseInt(SubSeq(s, 6, 7))
           d == ParseInt(SubSeq(s, 9, 10))
       IN  y >= 1 /\ m \in 1..12 /\ d >= 1 /\ d <= DaysInMonth(y, m)

\* datetime.isoformat() of a date parsed at midnight
isoformat(date) == date \o "T00:00:00"

day_map == [monday |-> 0, tuesday |-> 1, wednesday |-> 2, thursday |-> 3,
            friday |-> 4, saturday |-> 5, sunday |-> 6]

\* _get_date_for_day had it added the week only when the target day is before today
_get_date_for_day_or_today(day_name, today) ==
    LET target_day == day_map[day_name]
        current_day == weekday(today)
        days_ahead == target_day - current_day
    IN  strftime(today + (IF days_ahead < 0 THEN days_ahead + 7 ELSE days_ahead))

_get_date_for_day(day_name, today) ==
    LET target_day == day_map[day_name]
        current_day == weekday(today)
        days_ahead == target_day - current_day
    IN  strftime(today + (IF days_ahead <= 0 THEN days_ahead + 7 ELSE days_ahead))

\* r'by\s+(friday|monday|...)': the weekday named by the leftmost match, or None
ByWeekday(t) ==
    LET D(i) == {n \in DOMAIN day_map : At(t, i, "by") /\ IsSpace(Ch(t, i + 2)) /\ At(t, SkipWs(t, i + 2), n)}
        P == {i \in 1..Len(t) : D(i) # {}}
    IN  IF P = {} THEN None ELSE Some(CHOOSE n \in D(SetMin(P)) : TRUE)

\* r'(\d{4}-\d{2}-\d{2})'
IsoAt(t, i) ==
    /\ i + 9 <= Len(t)
    /\ AllDigits(SubSeq(t, i, i + 3)) /\ Ch(t, i + 4) = "-" /\ AllDigits(SubSeq(t, i + 5, i + 6))
    /\ Ch(t, i + 7) = "-" /\ AllDigits(SubSeq(t, i + 8, i + 9))

\* r'(\d{1,2}/\d{1,2}/\d{4})': the end of the match that starts at i, 0 when there is none
SlashEnd(t, i) ==
    LET a == IF IsDigit(Ch(t, i)) /\ IsDigit(Ch(t, i + 1)) /\ Ch(t, i + 2) = "/" THEN 2
             ELSE IF IsDigit(Ch(t, i)) /\ Ch(t, i + 1) = "/" THEN 1 ELSE 0
        j == i + a + 1
        b == IF IsDigit(Ch(t, j)) /\ IsDigit(Ch(t, j + 1)) /\ Ch(t, j + 2) = "/" THEN 2
             ELSE IF IsDigit(Ch(t, j)) /\ Ch(t, j + 1) = "/" THEN 1 ELSE 0
        k == j + b + 1
    IN  IF a # 0 /\ b # 0 /\ k + 3 <= Len(t) /\ AllDigits(SubSeq(t, k, k + 3)) THEN k + 3 ELSE 0

extract_due_date(user_input, today) ==
    LET t == lower(user_input)
        iso == {i \in 1..Len(t) : IsoAt(t, i)}
        slash == {i \in 1..Len(t) : SlashEnd(t, i) # 0}
    IN  IF ByWeekday(t) # None THEN Some(_get_date_for_day(ByWeekday(t)[1], today))
        ELSE IF \E i \in 1..Len(t) : At(t, i, "by") /\ IsSpace(Ch(t, i + 2)) /\ At(t, SkipWs(t, i + 2), "tomorrow")
             THEN Some(strftime(today + 1))
        ELSE IF Contains(t, "tomorrow") THEN Some(strftime(today + 1))
        ELSE IF Contains(t, "today") THEN Some(strftime(today))
        ELSE IF Contains(t, "next week") THEN Some(strftime(today + 7))
        ELSE IF iso # {} THEN Some(SubSeq(user_input, SetMin(iso), SetMin(iso) + 9))
        ELSE IF slash # {} THEN Some(SubSeq(user_input, SetMin(slash), SlashEnd(t, SetMin(slash))))
        ELSE None

\* the merge of an hour with its am/pm suffix (agent.py:128-131 and 138-141)
MergeMeridiem(hour, mer) ==
    LET h == IF mer = Some("pm") /\ hour < 12 THEN hour + 12 ELSE hour
    IN  IF mer = Some("am") /\ h = 12 THEN 0 ELSE h

\* (am|pm) at position p of the lower-cased text
MeridiemAt(t, p) == IF At(t, p, "am") THEN Some("am") ELSE IF At(t, p, "pm") THEN Some("pm") ELSE None

\* r'(?:at|by)?\s*(\d{1,2}):(\d{2})\s*(am|pm)?': the number of hour digits of a match
\* whose hour starts at d, 0 when there is none
HourMinuteAt(t, d) ==
    IF IsDigit(Ch(t, d)) /\ IsDigit(Ch(t, d + 1)) /\ Ch(t, d + 2) = ":" /\ IsDigit(Ch(t, d + 3)) /\ IsDigit(Ch(t, d + 4)) THEN 2
    ELSE IF IsDigit(Ch(t, d)) /\ Ch(t, d + 1) = ":" /\ IsDigit(Ch(t, d + 2)) /\ IsDigit(Ch(t, d + 3)) THEN 1
    ELSE 0

\* r'(?:at|by)?\s*(\d{1,2})\s*(am|pm)': the number of hour digits of a match whose
\* hour starts at d, 0 when there is none
HourMeridiemAt(t, d) ==
    LET n == IF IsDigit(Ch(t, d)) /\ IsDigit(Ch(t, d + 1)) THEN 2 ELSE IF IsDigit(Ch(t, d)) THEN 1 ELSE 0
    IN  IF n # 0 /\ MeridiemAt(t, SkipWs(t, d + n)) # None THEN n ELSE 0

part_map == << <<"morning", "09:00">>, <<"afternoon", "15:00">>, <<"evening", "18:00">>, <<"night", "20:00">> >>

extract_time(user_input) ==
    LET t == lower(user_input)
        HM == {d \in 1..Len(t) : HourMinuteAt(t, d) # 0}
        HA == {d \in 1..Len(t) : HourMeridiemAt(t, d) # 0}
        PD == {k \in 1..Len(part_map) : WordSearch(t, part_map[k][1])}
    IN  IF HM # {}
        THEN LET d == SetMin(HM)
                 n == HourMinuteAt(t, d)
                 hour == ParseInt(SubSeq(t, d, d + n - 1))
                 minute == ParseInt(SubSeq(t, d + n + 1, d + n + 2))
                 mer == MeridiemAt(t, SkipWs(t, d + n + 3))
             IN  Some(TwoDigits(MergeMeridiem(hour, mer)) \o ":" \o TwoDigits(minute))
        ELSE IF HA # {}
        THEN LET d == SetMin(HA)
                 n == HourMeridiemAt(t, d)
                 hour == ParseInt(SubSeq(t, d, d + n - 1))
                 mer == MeridiemAt(t, SkipWs(t, d + n))
             IN  Some(TwoDigits(MergeMeridiem(hour, mer)) \o ":00")
        ELSE IF PD # {} THEN Some(part_map[SetMin(PD)][2])
        ELSE None

priority_map == << <<"urgent", "urgent">>, <<"high", "high">>, <<"medium", "medium">>, <<"low", "low">>,
                   <<"important", "high">>, <<"critical", "urgent">> >>

\* extract_priority had it returned the value of the last keyword of the table that occurs
extract_priority_of_last(user_input) ==
    LET t == lower(user_input)
        M == {k \in 1..Len(priority_map) : WordSearch(t, priority_map[k][1])}
    IN  IF M # {} THEN priority_map[SetMax(M)][2] ELSE "medium"

extract_priority(user_input) ==
    LET t == lower(user_input)
        M == {k \in 1..Len(priority_map) : WordSearch(t, priority_map[k][1])}
    IN  IF M # {} THEN priority_map[SetMin(M)][2] ELSE "medium"

status_map == << <<"done", "completed">>, <<"completed", "completed">>, <<"finished", "completed">>,
                 <<"in progress", "in_progress">>, <<"started", "in_progress">>, <<"pending", "pending">>,
                 <<"cancelled", "cancelled">>, <<"canceled", "cancelled">> >>

extract_status(user_input) ==
    LET t == lower(user_input)
        M == {k \in 1..Len(status_map) : WordSearch(t, status_map[k][1])}
    IN  IF M # {} THEN Some(status_map[SetMin(M)][2]) ELSE None

\* r'task\s*#?(\d+)': the start of the digits of a match that starts at i, 0 when there is none
TaskIdDigits(t, i) ==
    IF ~At(t, i, "task") THEN 0
    ELSE LET q == SkipWs(t, i + 4)
             d == IF Ch(t, q) = "#" THEN q + 1 ELSE q
         IN  IF IsDigit(Ch(t, d)) THEN d ELSE 0

extract_task_id(user_input) ==
    LET t == lower(user_input)
        P == {i \in 1..Len(t) : TaskIdDigits(t, i) # 0}
    IN  IF P = {} THEN None
        ELSE LET d == TaskIdDigits(t, SetMin(P)) IN Some(ParseInt(SubSeq(t, d, SkipDigits(t, d) - 1)))

\* r'(?:the\s+)?task\s+(.+?)(?:\s+(?:as|to|is)|$)'
extract_task_title(user_input) ==
    LET t == lower(user_input)
        P == {i \in 1..Len(t) : At(t, i, "task") /\ GroupStart(user_input, i + 4, 1) # 0}
    IN  IF P = {} THEN None
        ELSE Some(Capture(user_input, t, GroupStart(user_input, SetMin(P) + 4, 1), {"as", "to", "is"}))

----------------------------------------------------------------------------
(* The texts and the days of the model.  The extractors are pure functions of   *)
(* the text (and the day): their values on the texts of the model are           *)
(* tabulated once and looked up by the handlers.                                *)

\* the task numbers users name
TaskNumbers == {1, 2}

\* the days on which the conversation may take place (November 5th 2026, a Thursday)
Todays == {309}

DeleteTaskMessage(n) == "delete task " \o IntToStr(n)
MarkCompletedMessage(n) == "mark task " \o IntToStr(n) \o " as completed"

UserMessages ==
    { "finish the report by friday",
      "remind me to call mom at 7pm",
      "buy milk tomorrow",
      "hello",
      "show me all my tasks",
      "find urgent tasks",
      "find pending tasks",
      "Mark task 2 as pending",
      "delete task milk",
      "edit it",
      "remove it",
      "change task 2 to due 2026-13-45",
      "add a task: pay rent due 12/25/2026",
      "add a task: call mom description: birthday at 7pm",
      "task: " }
    \cup {DeleteTaskMessage(n) : n \in TaskNumbers}
    \cup {MarkCompletedMessage(n) : n \in TaskNumbers}

\* what each method of TextProcessor returns for a text on a day
Extracted(user_input, today) ==
    [extract_title |-> extract_title(user_input),
     extract_description |-> extract_description(user_input),
     extract_due_date |-> extract_due_date(user_input, today),
     extract_time |-> extract_time(user_input),
     extract_priority |-> extract_priority(user_input),
     extract_status |-> extract_status(user_input),
     extract_task_id |-> extract_task_id(user_input),
     extract_task_title |-> extract_task_title(user_input)]

ExtractedTable ==
    {[text |-> m, day |-> d, fields |-> Extracted(m, d)] : m \in UserMessages, d \in Todays}

TextProcessor(user_input, today) ==
    IF user_input \in UserMessages /\ today \in Todays
    THEN (CHOOSE e \in ExtractedTable : e.text = user_input /\ e.day = today).fields
    ELSE Extracted(user_input, today)

----------------------------------------------------------------------------
(* The task store: backend/database.py and backend/task_tools.py.               *)
(* The table is the sequence of its rows in insertion order; created_at and     *)
(* updated_at are not read by the pipeline and are left out.                    *)

TaskStatus == {"pending", "in_progress", "completed", "cancelled"}
TaskPriority == {"low", "medium", "high", "urgent"}
StatusValues == "['pending', 'in_progress', 'completed', 'cancelled']"
PriorityValues == "['low', 'medium', 'high', 'urgent']"

\* What can go wrong in the database during one store call: nothing; SessionLocal()
\* raises before the try block; the first statement that reaches the database inside
\* the try block (first(), all(), commit()) raises.
Faults == {"none", "connect", "db"}
\* str(e) of the exception a failing database raises
DbError == "database is locked"

\* The dictionaries the store returns; an absent key is None (FALSE for success)
NoResult == [error |-> None, success |-> FALSE, message |-> None, task |-> None, tasks |-> None, count |-> None]
ErrorResult(msg) == [NoResult EXCEPT !.error = Some(msg)]

\* The outcome of a store call: the dictionary it returns and the table it leaves, or the
\* exception that escapes it, with the sessions it acquired (db = get_db_session()) and
\* the sessions it closed (db.close()).
\* a return from inside the try block had the session been closed at the end of the try
\* block instead of in a finally clause: only the successful path closes it
ReturnedWithoutFinally(result, table) ==
    [raised |-> FALSE, exc |-> "", result |-> result, tasks |-> table, acquired |-> 1,
     closed |-> IF result.success THEN 1 ELSE 0]

\* A return from inside the try block: the finally clause closes the session
Returned(result, table) ==
    [raised |-> FALSE, exc |-> "", result |-> result, tasks |-> table, acquired |-> 1, closed |-> 1]
\* SessionLocal() raises: no session was acquired, the try block is not entered
Raised(exc, table) ==
    [raised |-> TRUE, exc |-> exc, result |-> NoResult, tasks |-> table, acquired |-> 0, closed |-> 0]
\* The outcome of a handler that answers without a store call
Answered(result, table) ==
    [raised |-> FALSE, exc |-> "", result |-> result, tasks |-> table, acquired |-> 0, closed |-> 0]

to_dict(task) ==
    [id |-> task.id, title |-> task.title, description |-> task.description, status |-> task.status,
     due_date |-> IF task.due_date = None THEN None ELSE Some(isoformat(task.due_date[1])),
     priority |-> task.priority]

\* the primary key the database gives a new row (SQLite: one more than the largest)
NewId(table) == IF table = <<>> THEN 1 ELSE SetMax({table[k].id : k \in 1..Len(table)}) + 1

RECURSIVE Reverse(_)
Reverse(q) == IF q = <<>> THEN <<>> ELSE Append(Reverse(Tail(q)), Head(q))

RemoveAt(q, k) == SubSeq(q, 1, k - 1) \o SubSeq(q, k + 1, Len(q))

\* Task.title.ilike(f"%{m}%") for a text m without the wildcards % and _
ilike(title, m) == \E t \in {lower(title)}, pattern \in {lower(m)} : Contains(t, pattern)

\* the rows that  db.query(Task).filter(...).first()  may return (it names no order)
Find(table, task_id, title_match) ==
    IF TruthyInt(task_id) THEN {k \in 1..Len(table) : table[k].id = task_id[1]}
    ELSE IF TruthyStr(title_match) THEN {k \in 1..Len(table) : ilike(table[k].title, title_match[1])}
    ELSE {}

\* the choices first() has (0: no row)
Picks(table, task_id, title_match) ==
    IF Find(table, task_id, title_match) = {} THEN {0} ELSE Find(table, task_id, title_match)

\* create_task had it stored the description without the time hint
create_task_unfolded(table, title, description, due_date, priority, time_hint, fault) ==
    IF fault = "connect" THEN Raised(DbError, table)
    ELSE IF TruthyStr(due_date) /\ ~IsIsoDate(due_date[1])
    THEN Returned(ErrorResult("Invalid date format. Use YYYY-MM-DD format."), table)
    ELSE IF fault = "db" THEN Returned(ErrorResult("Failed to create task: " \o DbError), table)
    ELSE LET task == [id |-> NewId(table), title |-> title, description |-> description,
                      status |-> "pending",
                      due_date |-> IF TruthyStr(due_date) THEN due_date ELSE None,
                      priority |-> lower(priority)]
         IN  Returned([NoResult EXCEPT !.success = TRUE,
                                       !.message = Some("Task '" \o title \o "' created successfully"),
                                       !.task = Some(to_dict(task))],
                      Append(table, task))

create_task(table, title, description, due_date, priority, time_hint, fault) ==
    IF fault = "connect" THEN Raised(DbError, table)
    ELSE IF TruthyStr(due_date) /\ ~IsIsoDate(due_date[1])
    THEN Returned(ErrorResult("Invalid date format. Use YYYY-MM-DD format."), table)
    ELSE IF lower(priority) \notin TaskPriority
    THEN Returned(ErrorResult("Invalid priority. Must be one of: " \o PriorityValues), table)
    ELSE IF fault = "db" THEN Returned(ErrorResult("Failed to create task: " \o DbError), table)
    ELSE LET final_description ==
                 IF TruthyStr(time_hint)
                 THEN (IF TruthyStr(description) THEN Some(description[1] \o " | time: " \o time_hint[1])
                       ELSE Some("time: " \o time_hint[1]))
                 ELSE description
             task == [id |-> NewId(table), title |-> title, description |-> final_description,
                      status |-> "pending",
                      due_date |-> IF TruthyStr(due_date) THEN due_date ELSE None,
                      priority |-> lower(priority)]
         IN  Returned([NoResult EXCEPT !.success = TRUE,
                                       !.message = Some("Task '" \o title \o "' created successfully"),
                                       !.task = Some(to_dict(task))],
                      Append(table, task))

\* update_task had it written the new title to the table before it validated the other fields
update_task_unvalidated(table, task_id, title_match, title, description, status, due_date, priority, fault, pick) ==
    IF fault = "connect" THEN Raised(DbError, table)
    ELSE IF fault = "db" THEN Returned(ErrorResult("Failed to update task: " \o DbError), table)
    ELSE IF pick = 0 THEN Returned(ErrorResult("Task not found"), table)
    ELSE IF due_date # None /\ ~IsIsoDate(due_date[1])
    THEN Returned(ErrorResult("Invalid date format. Use YYYY-MM-DD format."),
                  [table EXCEPT ![pick].title = IF title # None THEN title[1] ELSE @])
    ELSE Returned([NoResult EXCEPT !.success = TRUE], table)

\* pick: the row first() returned (0: none)
update_task(table, task_id, title_match, title, description, status, due_date, priority, fault, pick) ==
    IF fault = "connect" THEN Raised(DbError, table)
    ELSE IF fault = "db" THEN Returned(ErrorResult("Failed to update task: " \o DbError), table)
    ELSE IF pick = 0 THEN Returned(ErrorResult("Task not found"), table)
    ELSE IF status # None /\ lower(status[1]) \notin TaskStatus
    THEN Returned(ErrorResult("Invalid status. Must be one of: " \o StatusValues), table)
    ELSE IF due_date # None /\ ~IsIsoDate(due_date[1])
    THEN Returned(ErrorResult("Invalid date format. Use YYYY-MM-DD format."), table)
    ELSE IF priority # None /\ lower(priority[1]) \notin TaskPriority
    THEN Returned(ErrorResult("Invalid priority. Must be one of: " \o PriorityValues), table)
    ELSE LET old == table[pick]
             task == [id |-> old.id,
                      title |-> IF title # None THEN title[1] ELSE old.title,
                      description |-> IF description # None THEN description ELSE old.description,
                      status |-> IF status # None THEN lower(status[1]) ELSE old.status,
                      due_date |-> IF due_date # None THEN due_date ELSE old.due_date,
                      priority |-> IF priority # None THEN lower(priority[1]) ELSE old.priority]
         IN  Returned([NoResult EXCEPT !.success = TRUE,
                                       !.message = Some("Task '" \o task.title \o "' updated successfully"),
                                       !.task = Some(to_dict(task))],
                      [table EXCEPT ![pick] = task])

\* delete_task had it deleted the rows of the query without its filter
delete_unfiltered(table, task_id, title_match, fault, pick) ==
    IF fault = "connect" THEN Raised(DbError, table)
    ELSE IF fault = "db" THEN Returned(ErrorResult("Failed to delete task: " \o DbError), table)
    ELSE IF pick = 0 THEN Returned(ErrorResult("Task not found"), table)
    ELSE Returned([NoResult EXCEPT !.success = TRUE,
                                   !.message = Some("Task '" \o table[pick].title \o "' deleted successfully")],
                  <<>>)

delete_task(table, task_id, title_match, fault, pick) ==
    IF fault = "connect" THEN Raised(DbError, table)
    ELSE IF fault = "db" THEN Returned(ErrorResult("Failed to delete task: " \o DbError), table)
    ELSE IF pick = 0 THEN Returned(ErrorResult("Task not found"), table)
    ELSE Returned([NoResult EXCEPT !.success = TRUE,
                                   !.message = Some("Task '" \o table[pick].title \o "' deleted successfully")],
                  RemoveAt(table, pick))

\* [task.to_dict() for task in query.order_by(Task.created_at.desc()).all()]
DictsNewestFirst(rows) == [k \in 1..Len(rows) |-> to_dict(Reverse(rows)[k])]

list_tasks(table, fault) ==
    IF fault = "connect" THEN Raised(DbError, table)
    ELSE IF fault = "db" THEN Returned(ErrorResult("Failed to list tasks: " \o DbError), table)
    ELSE Returned([NoResult EXCEPT !.success = TRUE,
                                   !.tasks = Some(DictsNewestFirst(table)),
                                   !.count = Some(Len(table))],
                  table)

\* a stored date as a number, for the comparison Task.due_date >= from_date
DateNumber(s) == ParseInt(SubSeq(s, 1, 4)) * 10000 + ParseInt(SubSeq(s, 6, 7)) * 100 + ParseInt(SubSeq(s, 9, 10))

RECURSIVE SelectRows(_, _, _, _, _)
SelectRows(rows, status, priority, due_date_from, due_date_to) ==
    IF rows = <<>> THEN <<>>
    ELSE LET r == Head(rows)
             keep == /\ TruthyStr(status) => r.status = lower(status[1])
                     /\ TruthyStr(priority) => r.priority = lower(priority[1])
                     /\ TruthyStr(due_date_from) =>
                            r.due_date # None /\ DateNumber(r.due_date[1]) >= DateNumber(due_date_from[1])
                     /\ TruthyStr(due_date_to) =>
                            r.due_date # None /\ DateNumber(r.due_date[1]) <= DateNumber(due_date_to[1])
         IN  (IF keep THEN <<r>> ELSE <<>>) \o SelectRows(Tail(rows), status, priority, due_date_from, due_date_to)

filter_tasks(table, status, priority, due_date_from, due_date_to, fault) ==
    IF fault = "connect" THEN Raised(DbError, table)
    ELSE IF TruthyStr(status) /\ lower(status[1]) \notin TaskStatus
    THEN Returned(ErrorResult("Invalid status. Must be one of: " \o StatusValues), table)
    ELSE IF TruthyStr(priority) /\ lower(priority[1]) \notin TaskPriority
    THEN Returned(ErrorResult("Invalid priority. Must be one of: " \o PriorityValues), table)
    ELSE IF TruthyStr(due_date_from) /\ ~IsIsoDate(due_date_from[1])
    THEN Returned(ErrorResult("Invalid due_date_from format. Use YYYY-MM-DD format."), table)
    ELSE IF TruthyStr(due_date_to) /\ ~IsIsoDate(due_date_to[1])
    THEN Returned(ErrorResult("Invalid due_date_to format. Use YYYY-MM-DD format."), table)
    ELSE IF fault = "db" THEN Returned(ErrorResult("Failed to filter tasks: " \o DbError), table)
    ELSE LET rows == SelectRows(table, status, priority, due_date_from, due_date_to)
         IN  Returned([NoResult EXCEPT !.success = TRUE,
                                       !.tasks = Some(DictsNewestFirst(rows)),
                                       !.count = Some(Len(rows))],
                      table)

----------------------------------------------------------------------------
(* IntentHandler *)

intent_patterns == <<
    [intent |-> "create", patterns |->
        <<"create", "add", "new", "make", "finish", "complete", "do", "plan", "schedule",
          "remind me to", "i have to", "have to", "need to", "must", "should", "want to",
          "i want", "i need", "i should", "i must", "i have", "i will", "i'm going to">>],
    [intent |-> "update", patterns |-> <<"update", "change", "modify", "edit", "mark", "done", "complete", "finish">>],
    [intent |-> "delete", patterns |-> <<"delete", "remove", "cancel", "drop", "erase">>],
    [intent |-> "list", patterns |-> <<"list", "show", "display", "get all", "what are", "what's my", "my tasks">>],
    [intent |-> "filter", patterns |->
        <<"filter", "find", "search", "look for", "high priority", "urgent", "pending", "completed">>] >>

\* any(pattern in user_input for pattern in patterns)
AnyIn(patterns, text) == \E k \in 1..Len(patterns) : Contains(text, patterns[k])

\* the places in intent_patterns of the intents with a pattern in the lower-cased text
\* (the loop of agent.py:234-238 reaches them in increasing order)
Matching(content) ==
    {k \in 1..Len(intent_patterns) : AnyIn(intent_patterns[k].patterns, lower(content))}

MatchingTable == {[text |-> m, matching |-> Matching(m)] : m \in UserMessages}

MatchingIntents(content) ==
    IF content \in UserMessages THEN (CHOOSE e \in MatchingTable : e.text = content).matching
    ELSE Matching(content)

\* parse_user_intent had it returned the last matching intent instead of the first
parse_last_matching_intent(messages) ==
    IF messages = <<>> THEN None
    ELSE IF MatchingIntents(messages[Len(messages)].content) # {}
    THEN Some(intent_patterns[SetMax(MatchingIntents(messages[Len(messages)].content))].intent)
    ELSE Some("general")

\* the intent parse_user_intent stores in the state for a list of messages
\* (None: the state is returned as it is, agent.py:215-216)
parse_user_intent(messages) ==
    IF messages = <<>> THEN None
    ELSE IF MatchingIntents(messages[Len(messages)].content) # {}
    THEN Some(intent_patterns[SetMin(MatchingIntents(messages[Len(messages)].content))].intent)
    ELSE Some("general")

create_indicators ==
    <<"add", "create", "new", "finish", "complete", "do", "task", "plan", "schedule",
      "remind me to", "i have to", "have to", "need to", "must", "should", "want to",
      "i want", "i need", "i should", "i must", "i have", "i will", "i'm going to",
      "tomorrow", "today", "next week", "this week", "play", "eat", "buy", "call", "visit">>

HelpMessage == "I can help you manage tasks! \n\nTry saying:\n 'Create a task to buy groceries tomorrow'\n 'Show me all my tasks'\n 'Mark task 1 as completed'\n 'Delete the grocery task'\n\nWhat would you like to do?"
CreateGuidance == "I'd be happy to help you create a task! \n\nCould you please tell me what you'd like to do? For example:\n 'Buy groceries tomorrow'\n 'Call the dentist next week'\n 'Finish the report by Friday'"
UpdateGuidance == "I can help you update a task! \n\nPlease tell me which task to update:\n 'Mark task 1 as completed'\n 'Update the grocery task to high priority'\n 'Change task 2 to due tomorrow'"
DeleteGuidance == "I can help you delete a task! \n\nPlease tell me which task to delete:\n 'Delete task 1'\n 'Remove the grocery task'\n 'Cancel the dentist appointment'"

\* One call of a store operation, as the dispatcher makes it: its name and arguments
NoArgs == [task_id |-> None, title_match |-> None, title |-> None, description |-> None, status |-> None,
           due_date |-> None, priority |-> None, time_hint |-> None]
Call(op, args) == [op |-> op, args |-> args]

\* What a handler of the dispatcher yields: the outcome of its store call, if it made
\* one, and the calls it made
Handled(outcome, calls) == [outcome |-> outcome, calls |-> calls]

\* F of a value that is computed once, however often F refers to it
Once(v, F(_)) == CHOOSE y \in {F(x) : x \in {v}} : TRUE

\* _create_task_from_input from the extracted fields on (agent.py:286-300)
CreateFromFields(fields, table, today, fault) ==
    IF fields.extract_title = "" THEN Handled(Answered(ErrorResult(CreateGuidance), table), <<>>)
    ELSE Handled(create_task(table, fields.extract_title, fields.extract_description,
                             fields.extract_due_date, fields.extract_priority,
                             fields.extract_time, fault),
                 <<Call("create_task", [NoArgs EXCEPT !.title = Some(fields.extract_title),
                                                      !.description = fields.extract_description,
                                                      !.due_date = fields.extract_due_date,
                                                      !.priority = Some(fields.extract_priority),
                                                      !.time_hint = fields.extract_time])>>)

_create_task_from_input(user_input, table, today, fault) ==
    Once(TextProcessor(user_input, today), LAMBDA fields : CreateFromFields(fields, table, today, fault))

\* _update_task_from_input from the extracted fields on (agent.py:308-326)
UpdateFromFields(fields, table, today, fault, pick) ==
    IF ~TruthyInt(fields.extract_task_id) /\ ~TruthyStr(fields.extract_task_title)
    THEN Handled(Answered(ErrorResult(UpdateGuidance), table), <<>>)
    ELSE Handled(update_task(table, fields.extract_task_id, fields.extract_task_title,
                             Some(fields.extract_title), fields.extract_description,
                             fields.extract_status, fields.extract_due_date,
                             Some(fields.extract_priority), fault, pick),
                 <<Call("update_task", [NoArgs EXCEPT !.task_id = fields.extract_task_id,
                                                      !.title_match = fields.extract_task_title,
                                                      !.title = Some(fields.extract_title),
                                                      !.description = fields.extract_description,
                                                      !.status = fields.extract_status,
                                                      !.due_date = fields.extract_due_date,
                                                      !.priority = Some(fields.extract_priority)])>>)

_update_task_from_input(user_input, table, today, fault, pick) ==
    Once(TextProcessor(user_input, today),
         LAMBDA fields : UpdateFromFields(fields, table, today, fault, pick))

\* what extract_task_id and extract_task_title return for a text
ExtractedIdentifiers(user_input) ==
    [extract_task_id |-> extract_task_id(user_input), extract_task_title |-> extract_task_title(user_input)]

IdentifiersTable == {[text |-> m, fields |-> ExtractedIdentifiers(m)] : m \in UserMessages}

Identifiers(user_input) ==
    IF user_input \in UserMessages THEN (CHOOSE e \in IdentifiersTable : e.text = user_input).fields
    ELSE ExtractedIdentifiers(user_input)

\* _delete_task_from_input from the extracted identifiers on (agent.py:334-337)
DeleteFromFields(fields, table, fault, pick) ==
    IF ~TruthyInt(fields.extract_task_id) /\ ~TruthyStr(fields.extract_task_title)
    THEN Handled(Answered(ErrorResult(DeleteGuidance), table), <<>>)
    ELSE Handled(delete_task(table, fields.extract_task_id, fields.extract_task_title, fault, pick),
                 <<Call("delete_task", [NoArgs EXCEPT !.task_id = fields.extract_task_id,
                                                      !.title_match = fields.extract_task_title])>>)

\* _delete_task_from_input had it called the store without looking at the identifiers
_delete_unidentified(user_input, table, fault, pick) ==
    Handled(delete_task(table, None, None, fault, pick), <<Call("delete_task", NoArgs)>>)

_delete_task_from_input(user_input, table, fault, pick) ==
    Once(Identifiers(user_input), LAMBDA fields : DeleteFromFields(fields, table, fault, pick))

\* _filter_tasks_from_input had it passed no priority to the store
FilterFromFieldsAnyPriority(fields, table, today, fault) ==
    Handled(filter_tasks(table, fields.extract_status, None, fields.extract_due_date, None, fault),
            <<Call("filter_tasks", [NoArgs EXCEPT !.status = fields.extract_status,
                                                  !.due_date = fields.extract_due_date])>>)

\* _filter_tasks_from_input from the extracted criteria on (agent.py:346-350)
FilterFromFields(fields, table, today, fault) ==
    Handled(filter_tasks(table, fields.extract_status, Some(fields.extract_priority),
                         fields.extract_due_date, None, fault),
            <<Call("filter_tasks", [NoArgs EXCEPT !.status = fields.extract_status,
                                                  !.priority = Some(fields.extract_priority),
                                                  !.due_date = fields.extract_due_date])>>)

\* _filter_tasks_from_input had it listed the tasks before filtering them
_filter_after_listing(user_input, table, today, fault) ==
    Handled(filter_tasks(table, None, None, None, None, fault),
            <<Call("list_tasks", NoArgs), Call("filter_tasks", NoArgs)>>)

_filter_tasks_from_input(user_input, table, today, fault) ==
    Once(TextProcessor(user_input, today), LAMBDA fields : FilterFromFields(fields, table, today, fault))

\* the rows first() may return for the identifiers extracted from a text
PicksFromFields(fields, table) == Picks(table, fields.extract_task_id, fields.extract_task_title)

\* the rows first() may return for the store call this turn makes (0: none, or no such call)
TurnPicks(intent, messages, table) ==
    IF intent \in {Some("update"), Some("delete")}
    THEN PicksFromFields(Identifiers(messages[Len(messages)].content), table)
    ELSE {0}

\* any(word in user_input.lower() for word in create_indicators)
IndicatesCreate(user_input) == AnyIn(create_indicators, lower(user_input))

IndicatesCreateTable == UNION {IF IndicatesCreate(m) THEN {m} ELSE {} : m \in UserMessages}

CreateIndicated(user_input) ==
    IF user_input \in UserMessages THEN user_input \in IndicatesCreateTable ELSE IndicatesCreate(user_input)

\* the try block had it answered every general turn with the help message
DispatchWithoutIndicators(intent, user_input, table, today, fault, pick) ==
    IF intent = "create" THEN _create_task_from_input(user_input, table, today, fault)
    ELSE IF intent = "update" THEN _update_task_from_input(user_input, table, today, fault, pick)
    ELSE IF intent = "delete" THEN _delete_task_from_input(user_input, table, fault, pick)
    ELSE IF intent = "list" THEN Handled(list_tasks(table, fault), <<Call("list_tasks", NoArgs)>>)
    ELSE IF intent = "filter" THEN _filter_tasks_from_input(user_input, table, today, fault)
    ELSE Handled(Answered([NoResult EXCEPT !.message = Some(HelpMessage)], table), <<>>)

\* the try block of execute_task_action: the branch of the intent
Dispatch(intent, user_input, table, today, fault, pick) ==
    IF intent = "create" THEN _create_task_from_input(user_input, table, today, fault)
    ELSE IF intent = "update" THEN _update_task_from_input(user_input, table, today, fault, pick)
    ELSE IF intent = "delete" THEN _delete_task_from_input(user_input, table, fault, pick)
    ELSE IF intent = "list" THEN Handled(list_tasks(table, fault), <<Call("list_tasks", NoArgs)>>)
    ELSE IF intent = "filter" THEN _filter_tasks_from_input(user_input, table, today, fault)
    ELSE IF CreateIndicated(user_input)
         THEN _create_task_from_input(user_input, table, today, fault)
         ELSE Handled(Answered([NoResult EXCEPT !.message = Some(HelpMessage)], table), <<>>)

\* the except clause had it left the result empty
Swallowed(h) ==
    [action_result |-> IF h.outcome.raised THEN NoResult ELSE h.outcome.result,
     tasks |-> h.outcome.tasks,
     calls |-> h.calls,
     acquired |-> h.outcome.acquired,
     closed |-> h.outcome.closed]

\* except Exception as e: result = {"error": f"An error occurred: {str(e)}"}
Caught(h) ==
    [action_result |-> IF h.outcome.raised THEN ErrorResult("An error occurred: " \o h.outcome.exc)
                       ELSE h.outcome.result,
     tasks |-> h.outcome.tasks,
     calls |-> h.calls,
     acquired |-> h.outcome.acquired,
     closed |-> h.outcome.closed]

\* execute_task_action: the action result it stores in the state, the table it leaves
\* and the store calls it made
execute_task_action(state_intent, messages, table, today, fault, pick) ==
    Once(Dispatch(IF state_intent = None THEN "general" ELSE state_intent[1],
                  IF messages # <<>> THEN messages[Len(messages)].content ELSE "",
                  table, today, fault, pick),
         Caught)

----------------------------------------------------------------------------
(* ResponseGenerator *)

TaskDetails(task) ==
    "\n\n Task Details:\n"
    \o " ID: " \o IntToStr(task.id) \o "\n"
    \o " Title: " \o task.title \o "\n"
    \o " Status: " \o task.status \o "\n"
    \o " Priority: " \o task.priority \o "\n"
    \o (IF TruthyStr(task.due_date) THEN " Due Date: " \o task.due_date[1] \o "\n" ELSE "")

TaskLine(task) ==
    " " \o task.title \o " (ID: " \o IntToStr(task.id) \o ", Status: " \o task.status
    \o ", Priority: " \o task.priority \o ")\n"
    \o (IF TruthyStr(task.due_date) THEN "   Due: " \o task.due_date[1] \o "\n" ELSE "")

RECURSIVE TaskLines(_)
TaskLines(dicts) == IF dicts = <<>> THEN "" ELSE TaskLine(Head(dicts)) \o TaskLines(Tail(dicts))

FoundHeader(n) == " Found " \o IntToStr(n) \o " task(s):\n\n"
NoTasksFound == "No tasks found matching your criteria. "
ActionCompleted == "Action completed successfully! "
HereToHelp == "I'm here to help you manage your tasks! "

\* the text generate_response composes for an action result
response_text(action_result) ==
    IF TruthyStr(action_result.error) THEN action_result.error[1]
    ELSE IF action_result.success
    THEN (IF action_result.message # None THEN action_result.message[1] ELSE ActionCompleted)
         \o (IF action_result.task # None THEN TaskDetails(action_result.task[1]) ELSE "")
    ELSE IF action_result.tasks # None
    THEN (IF action_result.tasks[1] # <<>>
          THEN FoundHeader(Len(action_result.tasks[1])) \o TaskLines(action_result.tasks[1])
          ELSE NoTasksFound)
    ELSE IF action_result.message # None THEN action_result.message[1] ELSE HereToHelp

Turn(role, content) == [role |-> role, content |-> content]

\* generate_response had it put the assistant's turn in the place of the last message
generate_response_in_place(action_result, messages) ==
    [messages EXCEPT ![Len(messages)] = Turn("assistant", response_text(action_result))]

\* generate_response appends the assistant's turn to the list state["messages"]
generate_response(action_result, messages) == Append(messages, Turn("assistant", response_text(action_result)))

----------------------------------------------------------------------------
(* The conversation: process_user_message and the graph of                      *)
(* create_deterministic_agent, one action per step.                             *)

\* the number of user messages of a conversation
MaxTurns == 2

\* the tables the database file may hold when the process starts
SeedTask(id, title, priority) ==
    [id |-> id, title |-> title, description |-> None, status |-> "pending", due_date |-> None,
     priority |-> priority]
InitialStores == { <<>>, <<SeedTask(1, "buy milk", "medium"), SeedTask(2, "milk the cow", "urgent")>> }

\* the transcripts a caller may supply with its first message
InitialTranscripts == { <<>>, <<Turn("assistant", "Welcome back")>> }

VARIABLES
    tasks,                 \* the rows of the tasks table
    conversation_history,  \* the list object the caller passes in; state["messages"] is this same object
    pc,                    \* the stage of the turn in progress
    intent,                \* state["intent"]
    action_result,         \* state["action_result"]
    response,              \* the "response" of the dictionary process_user_message returns
    now,                   \* datetime.now() as a day of the year
    turns,                 \* the number of messages processed
    user_message,          \* the message of the turn in progress
    supplied,              \* the contents of the caller's list when the call began
    store_calls,           \* the store operations called in this turn
    store_fault,           \* how the store call of this turn failed ("none": it did not, or none was made)
    tasks_at_call,         \* the rows of the tasks table when the call began
    stages,                \* the stages this turn has passed through
    sessions_opened,       \* the database sessions the store operations have acquired
    sessions_closed,       \* the database sessions the store operations have closed
    input_text,            \* the text handed to a method of TextProcessor
    extracted,             \* the method applied to the text and what it returned
    active_connections,    \* manager.active_connections, the list of WebSocket objects
    handlers,              \* where the coroutine websocket_endpoint(ws) of each WebSocket stands
    links,                 \* whether the client of each WebSocket is still connected
    loops,                 \* the for loop of each call of manager.broadcast in progress
    requests               \* the chat messages and REST requests the server has taken

vars == <<tasks, conversation_history, pc, intent, action_result, response, now, turns,
          user_message, supplied, store_calls, store_fault, tasks_at_call, stages,
          sessions_opened, sessions_closed, input_text, extracted,
          active_connections, handlers, links, loops, requests>>

\* the state of the WebSocket channel of main.py
manager_vars == <<active_connections, handlers, links, loops, requests>>

\* the WebSocket objects of the clients that connect to /ws/chat
WebSockets == {"ws1", "ws2", "ws3"}

\* the callers of manager.broadcast: the handler of a WebSocket, or a REST endpoint
RestEndpoint == "rest"
Broadcasters == WebSockets \cup {RestEndpoint}

\* no call of manager.broadcast is in progress for a caller
NoLoop == [at |-> "idle", cursor |-> 0, connection |-> "", started_with |-> <<>>, attempted |-> {}]

\* manager = ConnectionManager(): no connection, no handler running
ManagerCreated ==
    /\ active_connections = <<>>
    /\ handlers = [ws \in WebSockets |-> "unconnected"]
    /\ links = [ws \in WebSockets |-> "up"]
    /\ loops = [b \in Broadcasters |-> NoLoop]
    /\ requests = 0

\* no method of TextProcessor has been applied
NotExtracted == [method |-> "", value |-> None]

Init ==
    /\ tasks \in InitialStores
    /\ conversation_history \in InitialTranscripts
    /\ pc = "idle"
    /\ intent = None
    /\ action_result = NoResult
    /\ response = None
    /\ now \in Todays
    /\ turns = 0
    /\ user_message = ""
    /\ supplied = <<>>
    /\ store_calls = <<>>
    /\ store_fault = "none"
    /\ tasks_at_call = tasks
    /\ stages = <<>>
    /\ sessions_opened = 0
    /\ sessions_closed = 0
    /\ input_text = ""
    /\ extracted = NotExtracted
    /\ ManagerCreated

\* conversation_history.append({"role": "user", "content": user_message, ...})
AppendUserTurn(history, message) == Append(history, Turn("user", message))

\* the edges of the graph had parse_intent led to generate_response
NextStageSkipping(stage) ==
    CASE stage = "received" -> "intent_classified"
      [] stage = "intent_classified" -> "response_composed"
      [] stage = "action_executed" -> "response_composed"
      [] stage = "response_composed" -> "done"

\* the stage that follows a stage: the edges of the graph
NextStage(stage) ==
    CASE stage = "received" -> "intent_classified"
      [] stage = "intent_classified" -> "action_executed"
      [] stage = "action_executed" -> "response_composed"
      [] stage = "response_composed" -> "done"

Advance ==
    /\ pc' = NextStage(pc)
    /\ stages' = Append(stages, NextStage(pc))

\* process_user_message is called with the caller's list: the user's turn is appended
\* and the initial state of the graph is built
ProcessUserMessage(message) ==
    /\ pc \in {"idle", "done"}
    /\ turns < MaxTurns
    /\ supplied' = conversation_history
    /\ user_message' = message
    /\ conversation_history' = AppendUserTurn(conversation_history, message)
    /\ intent' = None
    /\ action_result' = NoResult
    /\ response' = None
    /\ store_calls' = <<>>
    /\ store_fault' = "none"
    /\ tasks_at_call' = tasks
    /\ pc' = "received"
    /\ stages' = <<"received">>
    /\ turns' = turns + 1
    /\ UNCHANGED <<tasks, now, sessions_opened, sessions_closed, input_text, extracted, manager_vars>>

\* node parse_intent
ParseIntent ==
    /\ pc = "received"
    /\ intent' = parse_user_intent(conversation_history)
    /\ Advance
    /\ UNCHANGED <<tasks, conversation_history, action_result, response, now, turns, user_message,
                   supplied, store_calls, store_fault, tasks_at_call,
                   sessions_opened, sessions_closed, input_text, extracted, manager_vars>>

\* state["action_result"] = result, with the table the store call left
Executed(r, fault) ==
    /\ action_result' = r.action_result
    /\ tasks' = r.tasks
    /\ store_calls' = r.calls
    /\ store_fault' = IF r.calls = <<>> THEN "none" ELSE fault
    /\ sessions_opened' = sessions_opened + r.acquired
    /\ sessions_closed' = sessions_closed + r.closed

\* node execute_action
ExecuteAction ==
    /\ pc = "intent_classified"
    /\ \E fault \in Faults, pick \in TurnPicks(intent, conversation_history, tasks) :
          \E r \in {execute_task_action(intent, conversation_history, tasks, now, fault, pick)} :
              Executed(r, fault)
    /\ Advance
    /\ UNCHANGED <<conversation_history, intent, response, now, turns, user_message, supplied,
                   tasks_at_call, input_text, extracted, manager_vars>>

\* node generate_response
GenerateResponse ==
    /\ pc = "action_executed"
    /\ conversation_history' = generate_response(action_result, conversation_history)
    /\ Advance
    /\ UNCHANGED <<tasks, intent, action_result, response, now, turns, user_message, supplied,
                   store_calls, store_fault, tasks_at_call,
                   sessions_opened, sessions_closed, input_text, extracted, manager_vars>>

\* process_user_message returns {"response": ..., "conversation_history": result["messages"]}
Return ==
    /\ pc = "response_composed"
    /\ response' = Some(conversation_history[Len(conversation_history)].content)
    /\ Advance
    /\ UNCHANGED <<tasks, conversation_history, intent, action_result, now, turns, user_message,
                   supplied, store_calls, store_fault, tasks_at_call,
                   sessions_opened, sessions_closed, input_text, extracted, manager_vars>>

Next ==
    \/ \E message \in UserMessages : ProcessUserMessage(message)
    \/ ParseIntent
    \/ ExecuteAction
    \/ GenerateResponse
    \/ Return

Spec == Init /\ [][Next]_vars

\* every step of a turn in progress is eventually taken: the graph runs to its end
FairSpec == Spec /\ WF_vars(ParseIntent) /\ WF_vars(ExecuteAction) /\ WF_vars(GenerateResponse) /\ WF_vars(Return)

----------------------------------------------------------------------------
(* TextProcessor applied to a text: each method is a pure function of the text  *)
(* (extract_due_date of the text and the current date).                          *)

\* 2026-11-05 (a Thursday) and the six days after it: every weekday is the current one once
ProbeDays == 309..315

WeekdayTexts == {"by " \o w : w \in DOMAIN day_map} \cup {"finish the report by Friday", "by  sunday at noon"}

PriorityWords == {"urgent", "high", "medium", "low", "important", "critical"}
PriorityTexts ==
    PriorityWords
    \cup {a \o " and " \o b : a \in PriorityWords, b \in PriorityWords}
    \cup {"hello", "URGENT call", "the lowest shelf", "highway 1", "it is Important!"}

TaskIdTexts ==
    {"delete task 0", "delete task 1", "update task #12", "task#3 is done", "Task 05", "task 00",
     "the task", "task x7", "mark task 2 as completed"}

HourDigits == {"0", "7", "11", "12", "13", "23", "24", "99"}
MinuteDigits == {"00", "30", "59", "60", "99"}
TimeTexts ==
    {"at " \o h \o ":" \o m \o x : h \in HourDigits, m \in MinuteDigits, x \in {"", "am", "pm", " AM", " pm"}}
    \cup {"by " \o h \o x : h \in HourDigits, x \in {"am", "pm", " pm"}}
    \cup {"call mom in the evening", "tonight", "at noon"}

ExtractorTexts == WeekdayTexts \cup PriorityTexts \cup TaskIdTexts \cup TimeTexts

\* a text and a current date are chosen; no method has been applied
ExtractInit ==
    /\ input_text \in ExtractorTexts
    /\ now \in (IF input_text \in WeekdayTexts THEN ProbeDays ELSE Todays)
    /\ extracted = NotExtracted
    /\ tasks = <<>>
    /\ conversation_history = <<>>
    /\ pc = "idle"
    /\ intent = None
    /\ action_result = NoResult
    /\ response = None
    /\ turns = 0
    /\ user_message = ""
    /\ supplied = <<>>
    /\ store_calls = <<>>
    /\ store_fault = "none"
    /\ tasks_at_call = <<>>
    /\ stages = <<>>
    /\ sessions_opened = 0
    /\ sessions_closed = 0
    /\ ManagerCreated

\* a method of TextProcessor is called with the text and returns the value
Applied(method, value) ==
    /\ extracted = NotExtracted
    /\ extracted' = [method |-> method, value |-> value]
    /\ UNCHANGED <<tasks, conversation_history, pc, intent, action_result, response, now, turns,
                   user_message, supplied, store_calls, store_fault, tasks_at_call, stages,
                   sessions_opened, sessions_closed, input_text, manager_vars>>

ExtractDueDate == Applied("extract_due_date", extract_due_date(input_text, now))
ExtractPriority == Applied("extract_priority", extract_priority(input_text))
ExtractTaskId == Applied("extract_task_id", extract_task_id(input_text))
ExtractTime == Applied("extract_time", extract_time(input_text))

ExtractNext ==
    \/ ExtractDueDate
    \/ ExtractPriority
    \/ ExtractTaskId
    \/ ExtractTime

ExtractSpec == ExtractInit /\ [][ExtractNext]_vars

----------------------------------------------------------------------------
(* The WebSocket channel of main.py: ConnectionManager and websocket_endpoint.   *)
(* The coroutines run on one event loop, so a step runs from one await to the    *)
(* next: accept(), receive_text() and send_text() are the places where another   *)
(* coroutine can run.  Whether a send to a client that has gone succeeds (the    *)
(* frame is buffered) or raises, and what it raises, is the library's choice.    *)

\* the number of chat messages and REST requests the server takes
MaxRequests == 2

\* the variables of the conversation, which the channel leaves alone
conversation_vars ==
    <<tasks, conversation_history, pc, intent, action_result, response, now, turns, user_message,
      supplied, store_calls, store_fault, tasks_at_call, stages, sessions_opened, sessions_closed,
      input_text, extracted>>

\* websocket in self.active_connections
InList(list, websocket) == \E i \in 1..Len(list) : list[i] = websocket

\* self.active_connections.remove(websocket): the list without its first occurrence
Remove(list, websocket) == RemoveAt(list, SetMin({i \in 1..Len(list) : list[i] = websocket}))

\* what awaiting send_text on a connection can do: return, raise WebSocketDisconnect, or
\* raise another exception
SendOutcomes(connection) ==
    IF links[connection] = "up" THEN {"sent"} ELSE {"sent", "disconnect", "error"}

\* for connection in self.active_connections: the list iterator keeps an index into the
\* list; it yields the element at the index and moves on, or ends when the index has
\* reached the length the list has now
Iterate(list, loop) ==
    IF loop.cursor < Len(list)
    THEN [loop EXCEPT !.at = "sending",
                      !.connection = list[loop.cursor + 1],
                      !.cursor = loop.cursor + 1,
                      !.attempted = loop.attempted \cup {list[loop.cursor + 1]}]
    ELSE [loop EXCEPT !.at = "finished", !.connection = ""]

\* manager.broadcast(message) is called: the loop starts over the list as it is
StartedLoop(list) == Iterate(list, [NoLoop EXCEPT !.started_with = list])

\* where the handler stands for the loop of its broadcast: in it, or back at receive_text()
HandlerIn(loop) == IF loop.at = "sending" THEN "broadcasting" ELSE "receiving"

\* manager.disconnect(websocket) in the except clause of websocket_endpoint: the handler
\* ends, or list.remove raises ValueError when the websocket is not in the list
Disconnect(websocket) ==
    IF InList(active_connections, websocket)
    THEN /\ active_connections' = Remove(active_connections, websocket)
         /\ handlers' = [handlers EXCEPT ![websocket] = "ended"]
    ELSE /\ active_connections' = active_connections
         /\ handlers' = [handlers EXCEPT ![websocket] = "disconnect_failed"]

\* a client opens /ws/chat: websocket_endpoint(websocket) starts and manager.connect awaits
\* websocket.accept()
Connect(websocket) ==
    /\ handlers[websocket] = "unconnected"
    /\ handlers' = [handlers EXCEPT ![websocket] = "accepting"]
    /\ UNCHANGED <<active_connections, links, loops, requests, conversation_vars>>

\* accept() returns: self.active_connections.append(websocket); the handler awaits
\* receive_text()
Accept(websocket) ==
    /\ handlers[websocket] = "accepting"
    /\ active_connections' = Append(active_connections, websocket)
    /\ handlers' = [handlers EXCEPT ![websocket] = "receiving"]
    /\ UNCHANGED <<links, loops, requests, conversation_vars>>

\* the client of a connection goes away
ClientDrops(websocket) ==
    /\ handlers[websocket] \in {"receiving", "replying", "broadcasting"}
    /\ links[websocket] = "up"
    /\ links' = [links EXCEPT ![websocket] = "down"]
    /\ UNCHANGED <<active_connections, handlers, loops, requests, conversation_vars>>

\* receive_text() returns a frame: json.loads and process_user_message run, and the handler
\* awaits send_personal_message; a frame that is not JSON raises out of the handler, which
\* catches WebSocketDisconnect only, and the server closes the connection
ReceiveText(websocket, data) ==
    /\ handlers[websocket] = "receiving"
    /\ links[websocket] = "up"
    /\ requests < MaxRequests
    /\ requests' = requests + 1
    /\ IF data = "json"
       THEN /\ handlers' = [handlers EXCEPT ![websocket] = "replying"]
            /\ links' = links
       ELSE /\ handlers' = [handlers EXCEPT ![websocket] = "failed"]
            /\ links' = [links EXCEPT ![websocket] = "down"]
    /\ UNCHANGED <<active_connections, loops, conversation_vars>>

\* receive_text() raises WebSocketDisconnect: except WebSocketDisconnect: manager.disconnect
ReceiveDisconnect(websocket) ==
    /\ handlers[websocket] = "receiving"
    /\ links[websocket] = "down"
    /\ Disconnect(websocket)
    /\ UNCHANGED <<links, loops, requests, conversation_vars>>

\* the await of send_personal_message ends; when it returns, manager.broadcast is called
\* and runs to its first send_text
SendPersonalMessage(websocket, outcome) ==
    /\ handlers[websocket] = "replying"
    /\ outcome \in SendOutcomes(websocket)
    /\ IF outcome = "sent"
       THEN /\ loops' = [loops EXCEPT ![websocket] = StartedLoop(active_connections)]
            /\ handlers' = [handlers EXCEPT ![websocket] = HandlerIn(StartedLoop(active_connections))]
            /\ UNCHANGED active_connections
       ELSE IF outcome = "disconnect"
       THEN Disconnect(websocket) /\ UNCHANGED loops
       ELSE /\ handlers' = [handlers EXCEPT ![websocket] = "failed"]
            /\ UNCHANGED <<active_connections, loops>>
    /\ UNCHANGED <<links, requests, conversation_vars>>

\* the loop of a broadcast moves on over the list
Iterated(caller, list) ==
    /\ active_connections' = list
    /\ loops' = [loops EXCEPT ![caller] = Iterate(list, loops[caller])]
    /\ handlers' = IF caller \in WebSockets
                   THEN [handlers EXCEPT ![caller] = HandlerIn(Iterate(list, loops[caller]))]
                   ELSE handlers
    /\ links' = links

\* the await of connection.send_text in the loop of broadcast ends: the loop moves on, or
\* the bare except removes the connection and the loop moves on; when the connection is no
\* longer in the list, remove raises ValueError out of broadcast and out of the handler
BroadcastSend(caller, outcome) ==
    /\ loops[caller].at = "sending"
    /\ outcome \in SendOutcomes(loops[caller].connection)
    /\ IF outcome = "sent"
       THEN Iterated(caller, active_connections)
       ELSE IF InList(active_connections, loops[caller].connection)
       THEN Iterated(caller, Remove(active_connections, loops[caller].connection))
       ELSE /\ loops' = [loops EXCEPT ![caller].at = "raised"]
            /\ handlers' = IF caller \in WebSockets THEN [handlers EXCEPT ![caller] = "failed"]
                           ELSE handlers
            /\ links' = IF caller \in WebSockets THEN [links EXCEPT ![caller] = "down"] ELSE links
            /\ UNCHANGED active_connections
    /\ UNCHANGED <<requests, conversation_vars>>

\* a REST endpoint (create, update or delete a task) calls manager.broadcast
RestBroadcast ==
    /\ loops[RestEndpoint].at # "sending"
    /\ requests < MaxRequests
    /\ requests' = requests + 1
    /\ loops' = [loops EXCEPT ![RestEndpoint] = StartedLoop(active_connections)]
    /\ UNCHANGED <<active_connections, handlers, links, conversation_vars>>

ManagerInit ==
    /\ ManagerCreated
    /\ tasks = <<>>
    /\ conversation_history = <<>>
    /\ pc = "idle"
    /\ intent = None
    /\ action_result = NoResult
    /\ response = None
    /\ now \in Todays
    /\ turns = 0
    /\ user_message = ""
    /\ supplied = <<>>
    /\ store_calls = <<>>
    /\ store_fault = "none"
    /\ tasks_at_call = <<>>
    /\ stages = <<>>
    /\ sessions_opened = 0
    /\ sessions_closed = 0
    /\ input_text = ""
    /\ extracted = NotExtracted

ManagerNext ==
    \/ \E websocket \in WebSockets : Connect(websocket)
    \/ \E websocket \in WebSockets : Accept(websocket)
    \/ \E websocket \in WebSockets : ClientDrops(websocket)
    \/ \E websocket \in WebSockets, data \in {"json", "malformed"} : ReceiveText(websocket, data)
    \/ \E websocket \in WebSockets : ReceiveDisconnect(websocket)
    \/ \E websocket \in WebSockets, outcome \in {"sent", "disconnect", "error"} :
           SendPersonalMessage(websocket, outcome)
    \/ \E caller \in Broadcasters, outcome \in {"sent", "disconnect", "error"} :
           BroadcastSend(caller, outcome)
    \/ RestBroadcast

ManagerSpec == ManagerInit /\ [][ManagerNext]_vars

----------------------------------------------------------------------------
(* Properties of a turn.                                                        *)

\* the stages at which the intent, the action result and the reply of the turn are known
Classified == {"intent_classified", "action_executed", "response_composed", "done"}
Acted == {"action_executed", "response_composed", "done"}
Composed == {"response_composed", "done"}

\* the last turn of the transcript
LastTurn == conversation_history[Len(conversation_history)]

\* the rows of a table other than the one numbered n
RowsExcept(table, n) == SelectSeq(table, LAMBDA row : row.id # n)
HasRow(table, n) == \E i \in 1..Len(table) : table[i].id = n

\* whether a keyword of the k-th intent occurs in the lower-cased text, for each text
KeywordOccurs ==
    UNION {IF \E i \in 1..Len(intent_patterns[k].patterns) :
                  Contains(lower(m), intent_patterns[k].patterns[i])
           THEN {<<m, k>>} ELSE {} : m \in UserMessages, k \in 1..Len(intent_patterns)}

SaysFinishOrComplete ==
    UNION {IF Contains(lower(m), "finish") \/ Contains(lower(m), "complete") THEN {m} ELSE {} :
           m \in UserMessages}

\* C1: the intent of a turn is the first of create, update, delete, list, filter one of
\* whose keywords occurs in the lower-cased text of the user, general when none occurs;
\* a text containing "finish" or "complete" is classified create.
C1_FirstMatchingIntent ==
    pc \in Classified =>
        LET Matches(k) == <<user_message, k>> \in KeywordOccurs IN
        /\ [k \in 1..Len(intent_patterns) |-> intent_patterns[k].intent]
              = <<"create", "update", "delete", "list", "filter">>
        /\ \A k \in 1..Len(intent_patterns) :
              (intent = Some(intent_patterns[k].intent))
                  <=> (Matches(k) /\ \A j \in 1..(k - 1) : ~Matches(j))
        /\ (intent = Some("general")) <=> (\A k \in 1..Len(intent_patterns) : ~Matches(k))
        /\ user_message \in SaysFinishOrComplete => intent = Some("create")

\* a text with "complete", a keyword of create and of update, and with a keyword of
\* filter has been classified
C1_Witness ==
    /\ pc = "intent_classified"
    /\ user_message \in SaysFinishOrComplete
    /\ <<user_message, 2>> \in KeywordOccurs
    /\ <<user_message, 5>> \in KeywordOccurs
    /\ intent = Some("create")

\* C2: a turn 'mark task <n> as completed' is classified update, update_task is called
\* with task_id = n and status = completed, and no task is created by the turn.
C2_MarkCompletedUpdates ==
    \A n \in TaskNumbers :
        (user_message = MarkCompletedMessage(n) /\ pc \in Acted) =>
            /\ intent = Some("update")
            /\ \E i \in 1..Len(store_calls) :
                  /\ store_calls[i].op = "update_task"
                  /\ store_calls[i].args.task_id = Some(n)
                  /\ store_calls[i].args.status = Some("completed")
            /\ \A i \in 1..Len(store_calls) : store_calls[i].op # "create_task"
            /\ Len(tasks) = Len(tasks_at_call)

\* C3: a turn 'delete task <n>' is classified delete and makes exactly one store call,
\* delete_task with task_id = n; when the store does not fail, a task numbered n is the
\* only one removed, and with no such task the store is unchanged and the reply is
\* 'Task not found'.
C3_DeleteTaskByNumber ==
    \A n \in TaskNumbers :
        (user_message = DeleteTaskMessage(n) /\ pc \in Acted) =>
            /\ intent = Some("delete")
            /\ Len(store_calls) = 1
            /\ store_calls[1].op = "delete_task"
            /\ store_calls[1].args.task_id = Some(n)
            /\ store_fault = "none" =>
                  /\ tasks = RowsExcept(tasks_at_call, n)
                  /\ Len(tasks) >= Len(tasks_at_call) - 1
                  /\ (~HasRow(tasks_at_call, n) /\ pc \in Composed) =>
                        /\ tasks = tasks_at_call
                        /\ LastTurn = Turn("assistant", "Task not found")

\* task 1 of two tasks has been deleted by number
C3_Witness ==
    /\ pc = "done"
    /\ user_message = DeleteTaskMessage(1)
    /\ store_fault = "none"
    /\ Len(tasks_at_call) = 2
    /\ HasRow(tasks_at_call, 1)
    /\ Len(tasks) = 1
    /\ ~HasRow(tasks, 1)

\* C4: when the store answers a list or filter turn with a list of tasks, the reply is
\* the 'no tasks found' message for an empty list and otherwise the count header
\* followed by one line per task.
C4_TaskListReply ==
    (pc \in Composed /\ intent \in {Some("list"), Some("filter")} /\ action_result.tasks # None) =>
        LastTurn = Turn("assistant",
                        IF action_result.tasks[1] = <<>> THEN NoTasksFound
                        ELSE FoundHeader(Len(action_result.tasks[1])) \o TaskLines(action_result.tasks[1]))

\* the turns of a transcript alternate user, assistant, and there are as many of each
Alternates(history) ==
    /\ Len(history) % 2 = 0
    /\ \A i \in 1..Len(history) : history[i].role = IF i % 2 = 1 THEN "user" ELSE "assistant"

\* C5: the transcript returned for a supplied transcript H and a message m is H, then
\* the user turn for m, then one assistant turn, which carries the response; so a
\* transcript that alternated user, assistant when supplied alternates when returned.
C5_TranscriptGrowsByTwo ==
    pc = "done" =>
        /\ Len(conversation_history) = Len(supplied) + 2
        /\ SubSeq(conversation_history, 1, Len(supplied)) = supplied
        /\ conversation_history[Len(supplied) + 1] = Turn("user", user_message)
        /\ conversation_history[Len(supplied) + 2].role = "assistant"
        /\ response = Some(conversation_history[Len(supplied) + 2].content)
        /\ Alternates(supplied) => Alternates(conversation_history)

\* the second turn of a conversation begun with an empty transcript has been answered
C5_Witness ==
    /\ pc = "done"
    /\ turns = 2
    /\ Len(supplied) = 2
    /\ Len(conversation_history) = 4
    /\ Alternates(conversation_history)

\* C6: the list the caller supplied has after the call the length and the contents it
\* had before it.
C6_CallerListUnchanged ==
    pc = "done" => conversation_history = supplied

\* the stages of a turn, in the order of the graph
StageOrder == <<"received", "intent_classified", "action_executed", "response_composed", "done">>

\* C7: a turn passes through received, intent_classified, action_executed,
\* response_composed, done in that order, each once and none skipped, and a turn that
\* was received reaches done, whatever its intent and whatever the store call did.
C7_StagesInOrder ==
    /\ [](pc # "idle" =>
             /\ Len(stages) \in 1..Len(StageOrder)
             /\ stages = SubSeq(StageOrder, 1, Len(stages))
             /\ pc = stages[Len(stages)])
    /\ [](pc = "done" => stages = StageOrder)
    /\ \A f \in Faults : (pc = "action_executed" /\ store_fault = f) ~> (pc = "done")
    /\ (pc = "received") ~> (pc = "done")

\* a turn whose store call raised has passed through all the stages
C7_Witness ==
    /\ pc = "done"
    /\ store_fault = "connect"
    /\ stages = StageOrder

\* the names of the store operations
StoreOperations == {"create_task", "update_task", "delete_task", "list_tasks", "filter_tasks"}

\* C8: a turn makes at most one call of a store operation, whatever its intent.
C8_AtMostOneStoreCall ==
    /\ Len(store_calls) <= 1
    /\ \A i \in 1..Len(store_calls) : store_calls[i].op \in StoreOperations

\* a turn of general intent has fallen through to the create path and called the store
C8_Witness ==
    /\ pc = "action_executed"
    /\ intent = Some("general")
    /\ Len(store_calls) = 1
    /\ store_calls[1].op = "create_task"

\* the guidance of the intent that could not identify its task
Guidance(i) == IF i = Some("update") THEN UpdateGuidance ELSE DeleteGuidance

\* C9: an update or delete turn whose text yields neither a task id nor a task title
\* gets the guidance of its intent as an error, calls no store operation and leaves
\* the store as it was; the guidance is the reply, verbatim.
C9_UnidentifiedTaskGuidance ==
    (/\ pc \in Acted
     /\ intent \in {Some("update"), Some("delete")}
     /\ Identifiers(user_message).extract_task_id = None
     /\ Identifiers(user_message).extract_task_title = None) =>
        /\ action_result = ErrorResult(Guidance(intent))
        /\ store_calls = <<>>
        /\ tasks = tasks_at_call
        /\ pc \in Composed => LastTurn = Turn("assistant", Guidance(intent))

\* a delete turn that names no task has been answered with the guidance, the store
\* holding tasks
C9_Witness ==
    /\ pc = "done"
    /\ intent = Some("delete")
    /\ Identifiers(user_message).extract_task_id = None
    /\ Identifiers(user_message).extract_task_title = None
    /\ tasks # <<>>
    /\ response = Some(DeleteGuidance)

\* the error the dispatcher makes of an exception of the store
CaughtError == "An error occurred: " \o DbError

\* C10: an exception raised by the store operation is caught by the dispatcher and made
\* an error result; the turn ends with one assistant turn appended, which carries that
\* error, and the store as it was; the turn after it is answered like any other.
C10_StoreExceptionCaught ==
    /\ [](pc \in Acted /\ store_fault = "connect" =>
             /\ action_result = ErrorResult(CaughtError)
             /\ tasks = tasks_at_call)
    /\ [](pc \in Composed /\ store_fault = "connect" =>
             conversation_history =
                 supplied \o <<Turn("user", user_message), Turn("assistant", CaughtError)>>)
    /\ [](pc = "done" /\ supplied # <<>> /\ supplied[Len(supplied)].content = CaughtError =>
             /\ conversation_history =
                    supplied \o <<Turn("user", user_message), Turn("assistant", response_text(action_result))>>
             /\ store_fault = "none" => action_result.error # Some(CaughtError))
    /\ (pc = "action_executed" /\ store_fault = "connect") ~> (pc = "done" /\ response = Some(CaughtError))

\* the turn after one whose store call raised has been carried out by the store
C10_Witness ==
    /\ pc = "done"
    /\ supplied # <<>>
    /\ supplied[Len(supplied)].content = CaughtError
    /\ store_fault = "none"
    /\ action_result.success
    /\ Len(tasks) > Len(tasks_at_call)

----------------------------------------------------------------------------
(* Properties of the fields of a task.                                          *)

\* a pattern of extract_title matches the text: the text names a title
NamesTitle(m) ==
    LET t == lower(m)
    IN  \/ PrefixWsCapture(m, t, "add a task:", TitleStopsBy) # None
        \/ TitleFinishBy(m, t) # None
        \/ PrefixCapture(m, t, "remind me to ", TitleStopsNoBy) # None
        \/ TitleModal(m, t) # None
        \/ PrefixWsCapture(m, t, "task:", TitleStopsShort) # None
        \/ TitleCreate(m, t) # None
        \/ PrefixCapture(m, t, "buy ", TitleStopsNoBy) # None

\* a keyword of priority_map occurs in the text as a whole word: the text names a priority
NamesPriority(m) == \E k \in 1..Len(priority_map) : WordSearch(lower(m), priority_map[k][1])

TitleNamed == UNION {IF NamesTitle(m) THEN {m} ELSE {} : m \in UserMessages}
PriorityNamed == UNION {IF NamesPriority(m) THEN {m} ELSE {} : m \in UserMessages}

\* the turn called update_task and the call succeeded
Updated ==
    /\ pc \in Acted
    /\ store_calls # <<>>
    /\ store_calls[1].op = "update_task"
    /\ action_result.success

\* C11: after an update turn every field of the target task (title, description, status,
\* due date, priority) for which the user's text supplies no new value keeps the value it
\* had in the store before the turn; only the fields the text names are changed.
C11_UnnamedFieldsKept ==
    Updated =>
        /\ Len(tasks) = Len(tasks_at_call)
        /\ \A k \in 1..Len(tasks) :
              /\ tasks[k].id = tasks_at_call[k].id
              /\ user_message \notin TitleNamed => tasks[k].title = tasks_at_call[k].title
              /\ store_calls[1].args.description = None =>
                     tasks[k].description = tasks_at_call[k].description
              /\ store_calls[1].args.status = None => tasks[k].status = tasks_at_call[k].status
              /\ store_calls[1].args.due_date = None => tasks[k].due_date = tasks_at_call[k].due_date
              /\ user_message \notin PriorityNamed => tasks[k].priority = tasks_at_call[k].priority

\* the errors a store operation returns for a task it does not find or a value it rejects
StoreErrors ==
    { "Task not found",
      "Invalid date format. Use YYYY-MM-DD format.",
      "Invalid due_date_from format. Use YYYY-MM-DD format.",
      "Invalid due_date_to format. Use YYYY-MM-DD format.",
      "Invalid status. Must be one of: " \o StatusValues,
      "Invalid priority. Must be one of: " \o PriorityValues }

\* the store call of the turn returned a validation error or a not-found error
Rejected ==
    /\ pc \in Acted
    /\ store_calls # <<>>
    /\ action_result.error # None
    /\ action_result.error[1] \in StoreErrors

\* C12: a turn whose store call returns a validation error (invalid priority, status or
\* date) or a not-found error leaves the task store exactly as it was before the turn, no
\* field of any task partially updated, and the assistant reply is the store's error
\* message verbatim.
C12_RejectedCallLeavesStore ==
    Rejected =>
        /\ tasks = tasks_at_call
        /\ pc \in Composed => LastTurn = Turn("assistant", action_result.error[1])
        /\ pc = "done" => response = action_result.error

\* an update of an existing task is rejected for its date, after the new title was set on
\* the row in the session, and the turn has replied
C12_Witness ==
    /\ Rejected
    /\ pc = "done"
    /\ store_calls[1].op = "update_task"
    /\ store_calls[1].args.title # None
    /\ \E k \in 1..Len(tasks) : tasks[k].id = store_calls[1].args.task_id[1]
    /\ response = Some("Invalid date format. Use YYYY-MM-DD format.")

\* the turn called create_task and the call succeeded: the new row is the last of the table
Created ==
    /\ pc \in Acted
    /\ store_calls # <<>>
    /\ store_calls[1].op = "create_task"
    /\ action_result.success

\* the description a create turn stores for an extracted description and time hint
FoldedDescription(description, time_hint) ==
    IF TruthyStr(time_hint)
    THEN (IF TruthyStr(description) THEN Some(description[1] \o " | time: " \o time_hint[1])
          ELSE Some("time: " \o time_hint[1]))
    ELSE description

\* C13: when a create turn yields a time hint HH:MM the stored task's description is exactly
\* 'time: HH:MM' if no description was extracted and exactly '<description> | time: HH:MM'
\* otherwise; when no time hint is extracted the stored description equals the extracted
\* description (or is absent).
C13_TimeHintFolded ==
    Created =>
        /\ Len(tasks) = Len(tasks_at_call) + 1
        /\ tasks[Len(tasks)].description =
               FoldedDescription(TextProcessor(user_message, now).extract_description,
                                 TextProcessor(user_message, now).extract_time)
        /\ user_message = "remind me to call mom at 7pm" => tasks[Len(tasks)].description = Some("time: 19:00")
        /\ user_message = "buy milk tomorrow" => tasks[Len(tasks)].description = None

\* a task is created from a text with a description and the time 7pm
C13_Witness ==
    /\ Created
    /\ TextProcessor(user_message, now).extract_time = Some("19:00")
    /\ TextProcessor(user_message, now).extract_description = Some("birthday at 7pm")
    /\ tasks[Len(tasks)].description = Some("birthday at 7pm | time: 19:00")

\* C14: for a successfully created task the title, priority and due_date extracted from the
\* user's text appear unchanged, value for value, in the task detail block of the composed
\* assistant reply.
C14_CreatedFieldsRoundTrip ==
    (Created /\ pc \in Composed) =>
        /\ Contains(LastTurn.content, " Title: " \o TextProcessor(user_message, now).extract_title \o "\n")
        /\ Contains(LastTurn.content, " Priority: " \o TextProcessor(user_message, now).extract_priority \o "\n")
        /\ TextProcessor(user_message, now).extract_due_date # None =>
               Contains(LastTurn.content,
                        " Due Date: " \o TextProcessor(user_message, now).extract_due_date[1] \o "\n")

\* the turn was classified general and the dispatcher has acted
GeneralTurn == pc \in Acted /\ intent = Some("general")

\* no store operation was invoked, the store is unchanged and the reply is the text
Unanswered(text) ==
    /\ store_calls = <<>>
    /\ tasks = tasks_at_call
    /\ pc \in Composed => LastTurn = Turn("assistant", text)

\* C15 (as stated): on a turn classified general, if the text contains (case-insensitively,
\* as a substring) any creation-indicator keyword the create path is taken and create_task
\* is invoked once; otherwise no store operation is invoked, the store is unchanged, and the
\* reply is the fixed help message.
C15_GeneralTurnCreatesOnce ==
    GeneralTurn =>
        IF CreateIndicated(user_message)
        THEN Len(store_calls) = 1 /\ store_calls[1].op = "create_task"
        ELSE Unanswered(HelpMessage)

\* C15 (amended): on a turn classified general, if the text contains any creation-indicator
\* keyword the create path is taken: create_task is invoked once with the extracted title
\* when that title is not empty, and when it is empty no store operation is invoked, the
\* store is unchanged and the reply is the create guidance; with no indicator no store
\* operation is invoked, the store is unchanged, and the reply is the fixed help message.
C15_GeneralTurnCreatePath ==
    GeneralTurn =>
        IF CreateIndicated(user_message)
        THEN IF TextProcessor(user_message, now).extract_title # ""
             THEN /\ Len(store_calls) = 1
                  /\ store_calls[1].op = "create_task"
                  /\ store_calls[1].args.title = Some(TextProcessor(user_message, now).extract_title)
             ELSE Unanswered(CreateGuidance)
        ELSE Unanswered(HelpMessage)

\* a general turn whose text has an indicator ('task') but no title has replied with the
\* create guidance
C15_Witness ==
    /\ GeneralTurn
    /\ pc = "done"
    /\ CreateIndicated(user_message)
    /\ TextProcessor(user_message, now).extract_title = ""
    /\ store_calls = <<>>
    /\ response = Some(CreateGuidance)

----------------------------------------------------------------------------
(* Properties of the methods of TextProcessor.                                  *)

\* C16: for every weekday name w and every current weekday, extract_due_date on 'by <w>'
\* returns a date that falls on weekday w and is between 1 and 7 days after the current
\* date inclusive; when today is already w the result is exactly 7 days ahead, never today.
C16_WeekdayWithinNextWeek ==
    \A w \in DOMAIN day_map :
        (extracted.method = "extract_due_date" /\ input_text = "by " \o w) =>
            \E ahead \in 1..7 :
                /\ extracted.value = Some(strftime(now + ahead))
                /\ weekday(now + ahead) = day_map[w]
                /\ weekday(now) = day_map[w] => ahead = 7

\* on a Thursday 'by thursday' has given the Thursday of the next week
C16_Witness ==
    /\ extracted.method = "extract_due_date"
    /\ input_text = "by thursday"
    /\ weekday(now) = day_map["thursday"]
    /\ extracted.value = Some(strftime(now + 7))

\* the keywords of a priority in the order of the table, each with its value
KeywordOrder == <<"urgent", "high", "medium", "low", "important", "critical">>
KeywordValue == [urgent |-> "urgent", high |-> "high", medium |-> "medium", low |-> "low",
                 important |-> "high", critical |-> "urgent"]

\* the keyword stands in the text as a whole word, in any case of the letters: neither the
\* character before it nor the character after it is a letter, a digit or an underscore
WholeWord(text, keyword) ==
    \E i \in 1..(Len(text) - Len(keyword) + 1) :
        /\ lower(SubSeq(text, i, i + Len(keyword) - 1)) = keyword
        /\ i > 1 => ~IsWord(SubSeq(text, i - 1, i - 1))
        /\ i + Len(keyword) <= Len(text) => ~IsWord(SubSeq(text, i + Len(keyword), i + Len(keyword)))

\* C17: extract_priority always returns one of low, medium, high, urgent and never absent:
\* it returns the value of the first keyword, in the table order urgent, high, medium, low,
\* important, critical, that occurs as a whole word in the text, and medium when none occurs.
C17_PriorityOfFirstKeyword ==
    extracted.method = "extract_priority" =>
        /\ extracted.value \in {"low", "medium", "high", "urgent"}
        /\ \A k \in 1..Len(KeywordOrder) :
              (/\ WholeWord(input_text, KeywordOrder[k])
               /\ \A j \in 1..(k - 1) : ~WholeWord(input_text, KeywordOrder[j]))
              => extracted.value = KeywordValue[KeywordOrder[k]]
        /\ (\A k \in 1..Len(KeywordOrder) : ~WholeWord(input_text, KeywordOrder[k]))
              => extracted.value = "medium"

\* a text with 'critical' before 'important' has given high, the value of important
C17_Witness ==
    /\ extracted.method = "extract_priority"
    /\ input_text = "critical and important"
    /\ extracted.value = "high"

----------------------------------------------------------------------------
(* Properties of the store.                                                     *)

\* the database sessions that are open: acquired and not closed
OpenSessions == sessions_opened - sessions_closed

\* C18: every store operation (create, update, delete, list, filter) releases the database
\* session it acquired on every exit path, success, validation error, not-found and
\* exception, so that after any sequence of store operations the number of open sessions
\* is zero.
C18_SessionsReleased ==
    /\ OpenSessions = 0
    /\ (pc \in Acted /\ store_calls # <<>> /\ store_fault # "connect") =>
           sessions_opened >= 1 /\ sessions_closed >= 1

\* two store operations have acquired a session each, the second ended with an error, and
\* both sessions are closed
C18_Witness ==
    /\ pc \in Acted
    /\ sessions_opened = 2
    /\ sessions_closed = 2
    /\ store_calls # <<>>
    /\ action_result.error # None

\* the tables a task is selected from
ProbeStores == InitialStores \cup { <<SeedTask(1, "buy 10 eggs", "medium")>> }

\* C19: extract_task_id returns either absent or a positive integer (at least 1) for every
\* input text, and a returned id n is the one used to select the task in the store's update
\* or delete operation.
C19_TaskIdPositive ==
    extracted.method = "extract_task_id" =>
        \/ extracted.value = None
        \/ /\ extracted.value[1] >= 1
           /\ \A table \in ProbeStores :
                 \A k \in Find(table, extracted.value, extract_task_title(input_text)) :
                     table[k].id = extracted.value[1]

\* a 24-hour clock time HH:MM: hour 00..23, minute 00..59
IsClockTime(s) ==
    /\ Len(s) = 5
    /\ IsDigit(SubSeq(s, 1, 1)) /\ IsDigit(SubSeq(s, 2, 2))
    /\ SubSeq(s, 3, 3) = ":"
    /\ IsDigit(SubSeq(s, 4, 4)) /\ IsDigit(SubSeq(s, 5, 5))
    /\ ParseInt(SubSeq(s, 1, 2)) \in 0..23
    /\ ParseInt(SubSeq(s, 4, 5)) \in 0..59

\* C20: whenever extract_time returns a value it is a valid 24-hour clock time HH:MM with
\* hour in 0..23 and minute in 0..59, for every hour and minute digits and every am/pm
\* suffix appearing in the input.
C20_TimeIsClockTime ==
    (extracted.method = "extract_time" /\ extracted.value # None) => IsClockTime(extracted.value[1])

----------------------------------------------------------------------------
(* Properties of the WebSocket channel.                                          *)

\* the connections whose client is still there
Live == {websocket \in WebSockets : links[websocket] = "up"}

\* the connections in a list
Members(list) == {list[i] : i \in 1..Len(list)}

\* C21: when a broadcast has gone through its loop, a send has been attempted to every
\* connection that was in active_connections when the broadcast started and is still live,
\* also when a failed connection was removed during the loop.
C21_BroadcastReachesAll ==
    \A caller \in Broadcasters :
        loops[caller].at = "finished" =>
            (Members(loops[caller].started_with) \cap Live) \subseteq loops[caller].attempted

\* the connections that have connected and whose handler has not ended
Running == {websocket \in WebSockets : handlers[websocket] \in {"receiving", "replying", "broadcasting"}}

\* C22: under every interleaving of connect, broadcast and client disconnection,
\* active_connections holds exactly the connections that have connected and whose handler
\* has not ended, and disconnect(websocket) finds the websocket in the list: no handler
\* fails in manager.disconnect.
C22_ActiveConnectionsExact ==
    /\ Members(active_connections) = Running
    /\ \A websocket \in WebSockets : handlers[websocket] # "disconnect_failed"

----------------------------------------------------------------------------
(* The filter turn.                                                              *)

\* the text was classified as filter and execute_action has run
FilterTurn == pc \in Acted /\ intent = Some("filter")

\* the ids of the rows a list of task dictionaries or table rows holds
IdsOf(rows) == {rows[k].id : k \in 1..Len(rows)}

\* the rows of the table the turn found that have the priority and, when one is named,
\* the status the store was called with
Restricted(table, status, priority) ==
    SelectSeq(table, LAMBDA row : /\ row.priority = priority
                                  /\ (status = None \/ row.status = status[1]))

\* C23: on a filter turn the one store call is filter_tasks with a priority that is not
\* absent: the priority the text names, medium when it names none; when the call succeeds
\* the tasks returned all have that priority, in addition to the status the text names.
C23_FilterPriorityNeverAbsent ==
    FilterTurn =>
        /\ Len(store_calls) = 1
        /\ store_calls[1].op = "filter_tasks"
        /\ store_calls[1].args.priority # None
        /\ user_message \notin PriorityNamed => store_calls[1].args.priority = Some("medium")
        /\ (action_result.success /\ store_calls[1].args.due_date = None) =>
               IdsOf(action_result.tasks[1]) =
                   IdsOf(Restricted(tasks_at_call, store_calls[1].args.status,
                                    store_calls[1].args.priority[1]))

\* 'find pending tasks' on a store with a pending medium task and a pending urgent task
\* returns the medium task only
C23_Witness ==
    /\ FilterTurn
    /\ user_message = "find pending tasks"
    /\ store_calls[1].args.status = Some("pending")
    /\ store_calls[1].args.priority = Some("medium")
    /\ action_result.success
    /\ \E k \in 1..Len(tasks_at_call) :
           tasks_at_call[k].status = "pending" /\ tasks_at_call[k].priority = "urgent"
    /\ IdsOf(action_result.tasks[1]) = {1}

====
